---- MODULE Spec2Model ----
(***************************************************************************)
(* A model of sks_spider: the Spider crawl (spider.go: one owner event     *)
(* loop, callers, DNS / probe / country workers, four bounded channels and *)
(* a WaitGroup) and the valid-IP selector (http_ip_valid.go).              *)
(*                                                                         *)
(* Hostnames and IPs are strings.  A Go map is a function whose DOMAIN is  *)
(* the key set; a Go slice is a sequence.                                  *)
(***************************************************************************)
EXTENDS Integers, Sequences, FiniteSets, TLC

\* ------------------------------------------------------------------------
\* Bounds of the model
\* ------------------------------------------------------------------------

\* Number of AddHost calls the callers make in one crawl.
MaxAdds == 2

\* ------------------------------------------------------------------------
\* Program constants
\* ------------------------------------------------------------------------

\* The capacity of the four channels.  spider.go:29 sets it to 100; the
\* model keeps the bounded-channel semantics at a capacity the crawls of
\* the model can fill.
QUEUE_DEPTH == 1

\* ------------------------------------------------------------------------
\* Generic helpers: Go maps and slices
\* ------------------------------------------------------------------------

EmptyMap == [k \in {} |-> 0]

Has(m, k) == k \in DOMAIN m

Put(m, k, v) == [x \in (DOMAIN m) \cup {k} |-> IF x = k THEN v ELSE m[x]]

Del(m, k) == [x \in (DOMAIN m) \ {k} |-> m[x]]

\* m[k] of a Go map: the zero value when the key is absent
GetOr(m, k, zero) == IF k \in DOMAIN m THEN m[k] ELSE zero

Range(s) == {s[i] : i \in 1..Len(s)}

\* ------------------------------------------------------------------------
\* strings.Contains, strings.HasSuffix, net.ParseIP
\* ------------------------------------------------------------------------

Char(s, i) == SubSeq(s, i, i)

Contains(s, sub) ==
    \E i \in 1..(Len(s) - Len(sub) + 1) : SubSeq(s, i, i + Len(sub) - 1) = sub

HasSuffix(s, suf) ==
    /\ Len(s) >= Len(suf)
    /\ SubSeq(s, Len(s) - Len(suf) + 1, Len(s)) = suf

Digits == <<"0", "1", "2", "3", "4", "5", "6", "7", "8", "9">>

IsDigit(c) == \E d \in 1..10 : Digits[d] = c

DigitVal(c) == (CHOOSE d \in 1..10 : Digits[d] = c) - 1

\* net.dtoi: the decimal number starting at index i; <<value, next index, ok>>
RECURSIVE dtoiFrom(_, _, _, _)
dtoiFrom(s, i, n, any) ==
    IF i <= Len(s) /\ IsDigit(Char(s, i)) /\ n <= 255
    THEN dtoiFrom(s, i + 1, n * 10 + DigitVal(Char(s, i)), TRUE)
    ELSE <<n, i, any /\ ~(i <= Len(s) /\ IsDigit(Char(s, i)))>>

dtoi(s, i) == dtoiFrom(s, i, 0, FALSE)

\* net.parseIPv4: four decimal fields of at most 255 separated by dots;
\* j is the field index, i the position in s.
RECURSIVE parseIPv4From(_, _, _)
parseIPv4From(s, i, j) ==
    IF j = 4 THEN i = Len(s) + 1
    ELSE IF i > Len(s) THEN FALSE
    ELSE IF j > 0 /\ Char(s, i) # "." THEN FALSE
    ELSE LET start == IF j > 0 THEN i + 1 ELSE i
             r == dtoi(s, start)
         IN  r[3] /\ r[1] <= 255 /\ parseIPv4From(s, r[2], j + 1)

\* net.ParseIP(hostname) != nil.  A string with no colon is never an IPv6
\* literal, and no hostname of the model has one.
ParseIP(s) == parseIPv4From(s, 1, 0)

\* ------------------------------------------------------------------------
\* The crawl's universe: the hostnames and IPs callers, DNS and probes use
\* ------------------------------------------------------------------------

\* hostnames considerHost accepts
CrawlHosts == {"a.x", "b.x"}

\* hostnames of each class considerHost rejects outright
RejectedHosts == {"bl.x", "1.2.3.4", "ab", "pool.x", "x.local", "dq.x"}

Hostnames == CrawlHosts \cup RejectedHosts

\* the static blacklist (a package variable set outside spider.go)
BlacklistedHosts == {"bl.x"}

\* the do-not-query hostnames (a package variable set outside spider.go)
blacklistedQueryHosts == <<"dq.x">>

\* IPDisallowed: loopback and private ranges
IPDisallowed(ip) == SubSeq(ip, 1, 4) = "127." \/ SubSeq(ip, 1, 3) = "10."

\* what callers pass to AddHost
SeedNames == {"a.x", "b.x", "x.local"}

SeedDistances == {0}

\* what net.LookupHost may answer for a hostname: a.x has one address or
\* does not resolve; b.x shares a.x's address, alone or beside a loopback
\* address or repeated beside one of its own, or has its own address only
DnsErr == "no such host"

IpLists(hostname) ==
    IF hostname = "a.x"
    THEN { <<"192.0.2.1">> }
    ELSE { <<"192.0.2.2">>,
           <<"192.0.2.1", "127.0.0.1">>,
           <<"192.0.2.2", "192.0.2.1", "192.0.2.2">> }

DnsReplies(hostname) ==
    {[ipList |-> l, err |-> ""] : l \in IpLists(hostname)}
        \cup (IF hostname = "a.x" THEN {[ipList |-> <<>>, err |-> DnsErr]} ELSE {})

\* what a node's status page may report
SelfNames == {"b.x", "c.x"}

NodeNames == {"c.x"}

SettingsChoices ==
    {EmptyMap}
        \cup {[k \in {"Hostname"} |-> s] : s \in SelfNames}
        \cup {[k \in {"Nodename"} |-> n] : n \in NodeNames}

GossipLists ==
    { <<>>,
      <<"b.x", "a.x", "bl.x", "1.2.3.4", "ab", "pool.x", "x.local", "dq.x", "b.x">> }

FetchErr == "fetch failed"

AnalyzePanic == "analyze panic"

NilNode == [nil |-> TRUE, Hostname |-> "", Settings |-> EmptyMap, GossipPeerList |-> <<>>]

\* what country lookup may answer
CountryReplies == {[country |-> "US", err |-> ""], [country |-> "", err |-> "geo failed"]}

\* ------------------------------------------------------------------------
\* State
\* ------------------------------------------------------------------------

VARIABLES
    \* Spider (spider.go:62-79)
    batchAddHost,     \* chan *HostsRequest
    dnsResult,        \* shared.dnsResult
    hostResult,       \* shared.hostResult
    countryResult,    \* shared.countryResult
    pending,          \* sync.WaitGroup counter
    considering,
    badDNS,
    knownHosts,
    aliasesForHost,
    knownIPs,
    ipsForHost,
    serverInfos,
    queryErrors,
    pendingHosts,
    pendingCountries,
    distances,
    countriesForIPs,
    \* goroutines
    ownerPc,          \* "select", or "send" when blocked in BatchAddHost's send
    ownerMsg,         \* the request the owner is sending, and the result it handles
    callerPc,         \* "idle", or "send" inside AddHost
    callerMsg,        \* the request a caller is sending
    dnsWorkers,       \* hostname -> DNS lookups in flight
    hostWorkers,      \* hostname -> probes in flight
    countryWorkers,   \* ip -> country lookups in flight
    \* history
    adds,             \* AddHost calls made
    waits,            \* Wait calls that have returned
    terminates,       \* terminate signals the owner has received
    dnsSpawned,       \* hostname -> DNS workers ever spawned
    hostSpawned       \* hostname -> probes ever spawned

spiderVars ==
    <<batchAddHost, dnsResult, hostResult, countryResult, pending, considering,
      badDNS, knownHosts, aliasesForHost, knownIPs, ipsForHost, serverInfos,
      queryErrors, pendingHosts, pendingCountries, distances, countriesForIPs,
      ownerPc, ownerMsg, callerPc, callerMsg, dnsWorkers, hostWorkers,
      countryWorkers, adds, waits, terminates, dnsSpawned, hostSpawned>>

mapVars ==
    <<considering, badDNS, knownHosts, aliasesForHost, knownIPs, ipsForHost,
      serverInfos, queryErrors, distances, countriesForIPs>>



\* the goroutines that call AddHost, Wait and Terminate
Callers == {"c1", "c2"}

MaxWaits == 1

MaxTerminates == 1

\* m[k] += d on a map of ints
Bump(m, k, d) == Put(m, k, GetOr(m, k, 0) + d)

\* StartSpider
SpiderInit ==
    /\ batchAddHost = <<>>
    /\ dnsResult = <<>>
    /\ hostResult = <<>>
    /\ countryResult = <<>>
    /\ pending = 0
    /\ considering = {}
    /\ badDNS = {}
    /\ knownHosts = EmptyMap
    /\ aliasesForHost = EmptyMap
    /\ knownIPs = EmptyMap
    /\ ipsForHost = EmptyMap
    /\ serverInfos = EmptyMap
    /\ queryErrors = EmptyMap
    /\ pendingHosts = EmptyMap
    /\ pendingCountries = EmptyMap
    /\ distances = EmptyMap
    /\ countriesForIPs = EmptyMap
    /\ ownerPc = "select"
    /\ ownerMsg = <<>>
    /\ callerPc = [c \in Callers |-> "idle"]
    /\ callerMsg = [c \in Callers |-> <<>>]
    /\ dnsWorkers = EmptyMap
    /\ hostWorkers = EmptyMap
    /\ countryWorkers = EmptyMap
    /\ adds = 0
    /\ waits = 0
    /\ terminates = 0
    /\ dnsSpawned = EmptyMap
    /\ hostSpawned = EmptyMap

\* ------------------------------------------------------------------------
\* Callers: AddHost, Wait, Terminate
\* ------------------------------------------------------------------------

\* AddHost up to the channel send: the counter and pendingHosts are
\* updated in the caller's context
AddHostCall(c, hostname, distance) ==
    /\ callerPc[c] = "idle"
    /\ adds < MaxAdds
    /\ pending' = pending + 1
    /\ pendingHosts' = Bump(pendingHosts, hostname, 1)
    /\ callerMsg' = [callerMsg EXCEPT ![c] =
            [hostnames |-> <<hostname>>, distance |-> distance, origin |-> ""]]
    /\ callerPc' = [callerPc EXCEPT ![c] = "send"]
    /\ adds' = adds + 1
    /\ UNCHANGED <<batchAddHost, dnsResult, hostResult, countryResult, mapVars,
                   pendingCountries, ownerPc, ownerMsg, dnsWorkers, hostWorkers,
                   countryWorkers, waits, terminates, dnsSpawned, hostSpawned>>

\* AddHost's send on batchAddHost, which blocks while the channel is full
AddHostSend(c) ==
    /\ callerPc[c] = "send"
    /\ Len(batchAddHost) < QUEUE_DEPTH
    /\ batchAddHost' = Append(batchAddHost, callerMsg[c])
    /\ callerMsg' = [callerMsg EXCEPT ![c] = <<>>]
    /\ callerPc' = [callerPc EXCEPT ![c] = "idle"]
    /\ UNCHANGED <<dnsResult, hostResult, countryResult, pending, mapVars,
                   pendingHosts, pendingCountries, ownerPc, ownerMsg, dnsWorkers,
                   hostWorkers, countryWorkers, adds, waits, terminates,
                   dnsSpawned, hostSpawned>>

\* Wait, called after an AddHost (spider.go:110-111): pending.Wait() returns
\* once the counter is zero; until then the call has no effect on the state
Wait(c) ==
    /\ callerPc[c] = "idle"
    /\ adds > 0
    /\ waits < MaxWaits
    /\ pending = 0
    /\ waits' = waits + 1
    /\ UNCHANGED <<batchAddHost, dnsResult, hostResult, countryResult, pending,
                   mapVars, pendingHosts, pendingCountries, ownerPc, ownerMsg,
                   callerPc, callerMsg, dnsWorkers, hostWorkers, countryWorkers,
                   adds, terminates, dnsSpawned, hostSpawned>>

\* Terminate's send on the unbuffered terminate channel meets the owner's
\* receive in its select (spider.go:131, 171-172): the break leaves the
\* select statement only, and the for loop goes round again
Terminate(c) ==
    /\ callerPc[c] = "idle"
    /\ terminates < MaxTerminates
    /\ ownerPc = "select"
    /\ terminates' = terminates + 1
    /\ ownerPc' = "select"
    /\ UNCHANGED <<batchAddHost, dnsResult, hostResult, countryResult, pending,
                   mapVars, pendingHosts, pendingCountries, ownerMsg, callerPc,
                   callerMsg, dnsWorkers, hostWorkers, countryWorkers, adds,
                   waits, dnsSpawned, hostSpawned>>

\* ------------------------------------------------------------------------
\* Workers: one blocking I/O, one result sent
\* ------------------------------------------------------------------------

\* the goroutine considerHost spawns
DnsWorker(hostname, reply) ==
    /\ GetOr(dnsWorkers, hostname, 0) > 0
    /\ Len(dnsResult) < QUEUE_DEPTH
    /\ dnsWorkers' = Bump(dnsWorkers, hostname, -1)
    /\ dnsResult' = Append(dnsResult,
            [hostname |-> hostname, ipList |-> reply.ipList, err |-> reply.err])
    /\ UNCHANGED <<batchAddHost, hostResult, countryResult, pending, mapVars,
                   pendingHosts, pendingCountries, ownerPc, ownerMsg, callerPc,
                   callerMsg, hostWorkers, countryWorkers, adds, waits,
                   terminates, dnsSpawned, hostSpawned>>

\* what node.Fetch and node.Analyze may do inside one QueryHost call
QueryHostOutcomes ==
    {[fetchErr |-> TRUE, panics |-> FALSE, Settings |-> EmptyMap,
      GossipPeerList |-> <<>>]}
        \cup {[fetchErr |-> FALSE, panics |-> TRUE, Settings |-> EmptyMap,
               GossipPeerList |-> <<>>]}
        \cup {[fetchErr |-> FALSE, panics |-> FALSE, Settings |-> st,
               GossipPeerList |-> peers] :
                    st \in SettingsChoices, peers \in GossipLists}

\* QueryHost whose recover swallows the panic and sends nothing
QueryHostSends_panicSwallowed(hostname, o) ==
    LET node == [nil |-> FALSE, Hostname |-> hostname,
                 Settings |-> o.Settings, GossipPeerList |-> o.GossipPeerList]
    IN  IF o.fetchErr
        THEN <<[hostname |-> hostname, node |-> NilNode, err |-> FetchErr]>>
        ELSE IF o.panics
        THEN <<>>
        ELSE <<[hostname |-> hostname, node |-> node, err |-> ""]>>

\* the messages one QueryHost call sends on hostResult, in order
\* (spider.go:306-329): the error result after a failed Fetch; otherwise what
\* the deferred recover sends when Analyze panics, followed by the node
\* result unless analyzePaniced was set
QueryHostSends(hostname, o) ==
    LET node == [nil |-> FALSE, Hostname |-> hostname,
                 Settings |-> o.Settings, GossipPeerList |-> o.GossipPeerList]
        recovered ==
            IF o.panics
            THEN <<[hostname |-> hostname, node |-> node, err |-> AnalyzePanic]>>
            ELSE <<>>
        analyzePaniced == o.panics
    IN  IF o.fetchErr
        THEN <<[hostname |-> hostname, node |-> NilNode, err |-> FetchErr]>>
        ELSE recovered \o
                (IF ~analyzePaniced
                 THEN <<[hostname |-> hostname, node |-> node, err |-> ""]>>
                 ELSE <<>>)

\* the ways QueryHost ends: the messages it has sent
QueryHostResults(hostname) ==
    {QueryHostSends(hostname, o) : o \in QueryHostOutcomes}

\* one probe worker runs to its end; its sends block while hostResult is full
QueryHost(hostname, sent) ==
    /\ GetOr(hostWorkers, hostname, 0) > 0
    /\ Len(hostResult) + Len(sent) <= QUEUE_DEPTH
    /\ hostWorkers' = Bump(hostWorkers, hostname, -1)
    /\ hostResult' = hostResult \o sent
    /\ UNCHANGED <<batchAddHost, dnsResult, countryResult, pending, mapVars,
                   pendingHosts, pendingCountries, ownerPc, ownerMsg, callerPc,
                   callerMsg, dnsWorkers, countryWorkers, adds, waits,
                   terminates, dnsSpawned, hostSpawned>>

QueryCountryForIP(ipstr, reply) ==
    /\ GetOr(countryWorkers, ipstr, 0) > 0
    /\ Len(countryResult) < QUEUE_DEPTH
    /\ countryWorkers' = Bump(countryWorkers, ipstr, -1)
    /\ countryResult' = Append(countryResult,
            [ip |-> ipstr, country |-> reply.country, err |-> reply.err])
    /\ UNCHANGED <<batchAddHost, dnsResult, hostResult, pending, mapVars,
                   pendingHosts, pendingCountries, ownerPc, ownerMsg, callerPc,
                   callerMsg, dnsWorkers, hostWorkers, adds, waits, terminates,
                   dnsSpawned, hostSpawned>>

\* ------------------------------------------------------------------------
\* The owner: spiderMainLoop and its handlers
\* ------------------------------------------------------------------------

\* a skip cascade without the ".local" test of spider.go:212-214
skipStatic_withoutDotLocal(hostname) ==
    \/ hostname \in BlacklistedHosts
    \/ ParseIP(hostname)
    \/ ~Contains(hostname, ".")
    \/ Contains(hostname, "pool.")
    \/ \E i \in 1..Len(blacklistedQueryHosts) : blacklistedQueryHosts[i] = hostname

\* the tests of considerHost's skip cascade that depend on the hostname
\* alone (spider.go:196-198, 203-223)
skipStatic(hostname) ==
    \/ hostname \in BlacklistedHosts
    \/ ParseIP(hostname)
    \/ ~Contains(hostname, ".")
    \/ Contains(hostname, "pool.")
    \/ HasSuffix(hostname, ".local")
    \/ \E i \in 1..Len(blacklistedQueryHosts) : blacklistedQueryHosts[i] = hostname

\* skipStatic, tabulated once over the hostnames that reach considerHost
EnqueuedNames == SeedNames \cup UNION {Range(l) : l \in GossipLists}

skipStaticOf == [h \in EnqueuedNames |-> skipStatic(h)]

\* a skip cascade without the considering test of spider.go:194-195: only
\* names with a finished lookup are skipped
skipHost_withoutConsidering(hostname, cons) ==
    \/ hostname \in badDNS
    \/ Has(knownHosts, hostname)
    \/ skipStaticOf[hostname]

\* the skip cascade of considerHost (spider.go:194-223), cons being the
\* considering set as the batch's earlier names left it
skipHost(hostname, cons) ==
    \/ hostname \in cons
    \/ hostname \in badDNS
    \/ Has(knownHosts, hostname)
    \/ skipStaticOf[hostname]

\* considerHost whose skip path leaves the counter alone
considerHost_skipKeepsCount(st, hostname, request) ==
    LET fromOrigin ==
            IF request.origin # "" /\ Has(st.distances, request.origin)
            THEN st.distances[request.origin] + 1
            ELSE -1
        distance == IF fromOrigin < 0 THEN request.distance ELSE fromOrigin
        promoted ==
            IF Has(st.distances, hostname) /\ st.distances[hostname] > distance
            THEN Put(st.distances, hostname, distance)
            ELSE st.distances
    IN  IF skipHost(hostname, st.considering)
        THEN [st EXCEPT !.distances = promoted,
                        !.pendingHosts = Bump(st.pendingHosts, hostname, -1)]
        ELSE [st EXCEPT !.considering = st.considering \cup {hostname},
                        !.distances = Put(promoted, hostname, distance),
                        !.dnsWorkers = Bump(st.dnsWorkers, hostname, 1),
                        !.dnsSpawned = Bump(st.dnsSpawned, hostname, 1)]

\* considerHost on the part of the state it touches:
\* st = [considering, distances, pending, pendingHosts, dnsWorkers, dnsSpawned]
considerHost(st, hostname, request) ==
    LET fromOrigin ==
            IF request.origin # "" /\ Has(st.distances, request.origin)
            THEN st.distances[request.origin] + 1
            ELSE -1
        distance == IF fromOrigin < 0 THEN request.distance ELSE fromOrigin
        promoted ==
            IF Has(st.distances, hostname) /\ st.distances[hostname] > distance
            THEN Put(st.distances, hostname, distance)
            ELSE st.distances
    IN  IF skipHost(hostname, st.considering)
        THEN [st EXCEPT !.distances = promoted,
                        !.pendingHosts = Bump(st.pendingHosts, hostname, -1),
                        !.pending = st.pending - 1]
        ELSE [st EXCEPT !.considering = st.considering \cup {hostname},
                        !.distances = Put(promoted, hostname, distance),
                        !.dnsWorkers = Bump(st.dnsWorkers, hostname, 1),
                        !.dnsSpawned = Bump(st.dnsSpawned, hostname, 1)]

\* the loop over hostreq.hostnames (spider.go:153-155)
RECURSIVE considerAll(_, _, _)
considerAll(st, names, request) ==
    IF names = <<>> THEN st
    ELSE considerAll(considerHost(st, Head(names), request), Tail(names), request)

\* case hostreq := <-spider.batchAddHost
OwnerAddHost ==
    /\ ownerPc = "select"
    /\ batchAddHost # <<>>
    /\ LET hostreq == Head(batchAddHost)
           st0 == [considering |-> considering, distances |-> distances,
                   pending |-> pending, pendingHosts |-> pendingHosts,
                   dnsWorkers |-> dnsWorkers, dnsSpawned |-> dnsSpawned]
           st == considerAll(st0, hostreq.hostnames, hostreq)
       IN  /\ considering' = st.considering
           /\ distances' = st.distances
           /\ pending' = st.pending
           /\ pendingHosts' = st.pendingHosts
           /\ dnsWorkers' = st.dnsWorkers
           /\ dnsSpawned' = st.dnsSpawned
    /\ batchAddHost' = Tail(batchAddHost)
    /\ UNCHANGED <<dnsResult, hostResult, countryResult, badDNS, knownHosts,
                   aliasesForHost, knownIPs, ipsForHost, serverInfos, queryErrors,
                   pendingCountries, countriesForIPs, ownerPc, ownerMsg, callerPc,
                   callerMsg, hostWorkers, countryWorkers, adds, waits,
                   terminates, hostSpawned>>

\* flattenIPs: the lists concatenated, later duplicates dropped
RECURSIVE dedupInto(_, _)
dedupInto(result, rest) ==
    IF rest = <<>> THEN result
    ELSE IF Head(rest) \in Range(result)
         THEN dedupInto(result, Tail(rest))
         ELSE dedupInto(Append(result, Head(rest)), Tail(rest))

RECURSIVE concatAll(_)
concatAll(ipLists) ==
    IF ipLists = <<>> THEN <<>> ELSE Head(ipLists) \o concatAll(Tail(ipLists))

flattenIPs(ipLists) == dedupInto(<<>>, concatAll(ipLists))

\* m[k] = v for every k of the sequence ks
RECURSIVE PutAll(_, _, _)
PutAll(m, ks, v) ==
    IF ks = <<>> THEN m ELSE PutAll(Put(m, Head(ks), v), Tail(ks), v)

\* m[k] += 1 for every k of the sequence ks
RECURSIVE BumpAll(_, _)
BumpAll(m, ks) ==
    IF ks = <<>> THEN m ELSE BumpAll(Bump(m, Head(ks), 1), Tail(ks))

\* a loop that stops at disallowed IPs only
dnsStop_ignoresKnown(known, ipList) ==
    LET hits == {i \in 1..Len(ipList) : IPDisallowed(ipList[i])}
    IN  IF hits = {} THEN 0 ELSE CHOOSE i \in hits : \A j \in hits : i <= j

\* the first index of ipList at which the loop of processDnsResult
\* (spider.go:270-286) returns, 0 when it runs to the end
dnsStop(known, ipList) ==
    LET hits == {i \in 1..Len(ipList) :
                    IPDisallowed(ipList[i]) \/ Has(known, ipList[i])}
    IN  IF hits = {} THEN 0 ELSE CHOOSE i \in hits : \A j \in hits : i <= j

\* the maps processDnsResult reads and writes, as they stand
dnsMaps ==
    [knownHosts |-> knownHosts, aliasesForHost |-> aliasesForHost,
     knownIPs |-> knownIPs, ipsForHost |-> ipsForHost,
     serverInfos |-> serverInfos, badDNS |-> badDNS,
     countriesForIPs |-> countriesForIPs]

\* processDnsResult (spider.go:262-304) on the maps m: the maps afterwards,
\* the path taken, and the IPs a country lookup is spawned for
processDnsResult(m, dns) ==
    LET hostname == dns.hostname
        ipList == flattenIPs(<<dns.ipList>>)
        stop == dnsStop(m.knownIPs, ipList)
    IN  IF dns.err # "" \/ (stop > 0 /\ IPDisallowed(ipList[stop]))
        THEN \* DNS failure, or a disallowed IP met first
             [maps |-> [m EXCEPT !.badDNS = m.badDNS \cup {hostname}],
              path |-> "bad", newIPs |-> <<>>]
        ELSE IF stop > 0
        THEN \* an IP already known: an alias of its canonical host
             LET canonical == m.knownIPs[ipList[stop]]
             IN  [maps |-> [m EXCEPT
                        !.knownHosts = Put(m.knownHosts, hostname, canonical),
                        !.knownIPs = PutAll(m.knownIPs, ipList, canonical),
                        !.ipsForHost = Put(m.ipsForHost, canonical,
                            flattenIPs(<<GetOr(m.ipsForHost, canonical, <<>>), ipList>>))],
                  path |-> "alias", newIPs |-> <<>>]
        ELSE \* a new host: country lookups for its new IPs, and a probe
             LET newIPs == SelectSeq(ipList, LAMBDA ip : ~Has(m.countriesForIPs, ip))
             IN  [maps |-> [m EXCEPT
                        !.knownHosts = Put(m.knownHosts, hostname, hostname),
                        !.aliasesForHost = Put(m.aliasesForHost, hostname, <<hostname>>),
                        !.ipsForHost = Put(m.ipsForHost, hostname, ipList),
                        !.knownIPs = PutAll(m.knownIPs, ipList, hostname),
                        !.countriesForIPs = PutAll(m.countriesForIPs, newIPs, ""),
                        !.serverInfos = Put(m.serverInfos, hostname, NilNode)],
                  path |-> "new", newIPs |-> newIPs]

\* case dnsResult := <-spider.shared.dnsResult, with processDnsResult
OwnerDnsResult ==
    /\ ownerPc = "select"
    /\ dnsResult # <<>>
    /\ LET dns == Head(dnsResult)
           hostname == dns.hostname
           r == processDnsResult(dnsMaps, dns)
       IN  /\ knownHosts' = r.maps.knownHosts
           /\ aliasesForHost' = r.maps.aliasesForHost
           /\ knownIPs' = r.maps.knownIPs
           /\ ipsForHost' = r.maps.ipsForHost
           /\ serverInfos' = r.maps.serverInfos
           /\ badDNS' = r.maps.badDNS
           /\ countriesForIPs' = r.maps.countriesForIPs
           /\ IF r.path = "new"
              THEN /\ pendingCountries' = BumpAll(pendingCountries, r.newIPs)
                   /\ countryWorkers' = BumpAll(countryWorkers, r.newIPs)
                   /\ hostWorkers' = Bump(hostWorkers, hostname, 1)
                   /\ hostSpawned' = Bump(hostSpawned, hostname, 1)
                   /\ pendingHosts' = Bump(Bump(pendingHosts, hostname, 1), hostname, -1)
                   /\ pending' = pending + Len(r.newIPs) + 1 - 1
              ELSE /\ pendingHosts' = Bump(pendingHosts, hostname, -1)
                   /\ pending' = pending - 1
                   /\ UNCHANGED <<pendingCountries, hostWorkers, countryWorkers,
                                  hostSpawned>>
    /\ dnsResult' = Tail(dnsResult)
    /\ UNCHANGED <<batchAddHost, hostResult, countryResult, considering,
                   queryErrors, distances, ownerPc, ownerMsg, callerPc, callerMsg,
                   dnsWorkers, adds, waits, terminates, dnsSpawned>>

\* The rename of processHostResult (spider.go:343-373), map by map, for a
\* probe of hostname that reports canonical as its own name.

\* a rename that leaves the entry of the queried name in place
serverInfosRenamed_withoutDelete(hostname, canonical) == serverInfos

\* delete(spider.serverInfos, hostname)  (spider.go:350)
serverInfosRenamed(hostname, canonical) == Del(serverInfos, hostname)

\* spider.go:352-357: canonical maps to itself unless it is a key already,
\* and every alias of hostname maps to canonical
knownHostsRenamed(hostname, canonical) ==
    PutAll(IF Has(knownHosts, canonical) THEN knownHosts
           ELSE Put(knownHosts, canonical, canonical),
           GetOr(aliasesForHost, hostname, <<>>), canonical)

\* spider.go:358, 369
aliasesForHostRenamed(hostname, canonical) ==
    Del(Put(aliasesForHost, canonical,
            Append(GetOr(aliasesForHost, hostname, <<>>), canonical)),
        hostname)

\* spider.go:360-362
knownIPsRenamed(hostname, canonical) ==
    PutAll(knownIPs, GetOr(ipsForHost, hostname, <<>>), canonical)

\* spider.go:363-368: the IP list moves to canonical, or is merged into the
\* list canonical has
ipsForHostRenamed(hostname, canonical) ==
    IF ~Has(ipsForHost, canonical)
    THEN Del(Put(ipsForHost, canonical, GetOr(ipsForHost, hostname, <<>>)), hostname)
    ELSE Put(ipsForHost, canonical,
             flattenIPs(<<ipsForHost[canonical], GetOr(ipsForHost, hostname, <<>>)>>))

\* spider.go:370-372
distancesRenamed(hostname, canonical) ==
    IF ~Has(distances, canonical)
            \/ distances[canonical] < GetOr(distances, hostname, 0)
    THEN Put(distances, canonical, GetOr(distances, hostname, 0))
    ELSE distances

\* processHostResult up to its BatchAddHost call (spider.go:341-382): the
\* maps after a successful probe result hr
processHostResult(hr) ==
    LET hostname == hr.hostname
        node == hr.node
        own_hostname == GetOr(node.Settings, "Hostname", "")
        rename == Has(node.Settings, "Hostname") /\ own_hostname # hostname
        canonical == IF rename THEN own_hostname ELSE hostname
        knownHosts1 ==
            IF rename THEN knownHostsRenamed(hostname, canonical) ELSE knownHosts
        serverInfos1 ==
            IF rename THEN serverInfosRenamed(hostname, canonical) ELSE serverInfos
        \* spider.go:375-380
        own_nodename == GetOr(node.Settings, "Nodename", "")
        knownHosts2 ==
            IF /\ Has(node.Settings, "Nodename")
               /\ own_nodename # canonical
               /\ own_nodename # own_hostname
               /\ ~Has(knownHosts1, own_nodename)
            THEN Put(knownHosts1, own_nodename, canonical)
            ELSE knownHosts1
    IN  [canonical |-> canonical,
         knownHosts |-> knownHosts2,
         aliasesForHost |->
            IF rename THEN aliasesForHostRenamed(hostname, canonical)
            ELSE aliasesForHost,
         knownIPs |->
            IF rename THEN knownIPsRenamed(hostname, canonical) ELSE knownIPs,
         ipsForHost |->
            IF rename THEN ipsForHostRenamed(hostname, canonical) ELSE ipsForHost,
         distances |->
            IF rename THEN distancesRenamed(hostname, canonical) ELSE distances,
         serverInfos |-> Put(serverInfos1, canonical, node)]

\* case hostResult := <-spider.shared.hostResult.  On success the handler
\* ends in BatchAddHost, run by the owner itself: the counter is raised, then
\* the request is sent; with batchAddHost full that send blocks the owner,
\* and since only the owner receives from batchAddHost it blocks for good.
OwnerHostResult ==
    /\ ownerPc = "select"
    /\ hostResult # <<>>
    /\ LET hr == Head(hostResult)
           hostname == hr.hostname
       IN  IF hr.err # ""
           THEN /\ queryErrors' = Put(queryErrors, hostname, hr.err)
                /\ pendingHosts' = Bump(pendingHosts, hostname, -1)
                /\ pending' = pending - 1
                /\ UNCHANGED <<batchAddHost, knownHosts, aliasesForHost, knownIPs,
                               ipsForHost, distances, serverInfos, ownerPc, ownerMsg>>
           ELSE LET r == processHostResult(hr)
                    hostlist == hr.node.GossipPeerList
                    request == [hostnames |-> hostlist, distance |-> 0,
                                origin |-> r.canonical]
                    queued == BumpAll(pendingHosts, hostlist)
                IN  /\ knownHosts' = r.knownHosts
                    /\ aliasesForHost' = r.aliasesForHost
                    /\ knownIPs' = r.knownIPs
                    /\ ipsForHost' = r.ipsForHost
                    /\ distances' = r.distances
                    /\ serverInfos' = r.serverInfos
                    /\ UNCHANGED queryErrors
                    /\ IF Len(batchAddHost) < QUEUE_DEPTH
                       THEN /\ batchAddHost' = Append(batchAddHost, request)
                            /\ pendingHosts' = Bump(queued, hostname, -1)
                            /\ pending' = pending + Len(hostlist) - 1
                            /\ UNCHANGED <<ownerPc, ownerMsg>>
                       ELSE /\ ownerPc' = "send"
                            /\ ownerMsg' = <<request, hr>>
                            /\ pendingHosts' = queued
                            /\ pending' = pending + Len(hostlist)
                            /\ UNCHANGED batchAddHost
    /\ hostResult' = Tail(hostResult)
    /\ UNCHANGED <<dnsResult, countryResult, considering, badDNS,
                   pendingCountries, countriesForIPs, callerPc, callerMsg,
                   dnsWorkers, hostWorkers, countryWorkers, adds, waits,
                   terminates, dnsSpawned, hostSpawned>>

\* case countryResult := <-spider.shared.countryResult, with
\* processCountryResult
OwnerCountryResult ==
    /\ ownerPc = "select"
    /\ countryResult # <<>>
    /\ LET cr == Head(countryResult)
       IN  /\ countriesForIPs' =
                IF cr.err = "" THEN Put(countriesForIPs, cr.ip, cr.country)
                ELSE countriesForIPs
           /\ pendingCountries' = Bump(pendingCountries, cr.ip, -1)
    /\ pending' = pending - 1
    /\ countryResult' = Tail(countryResult)
    /\ UNCHANGED <<batchAddHost, dnsResult, hostResult, considering, badDNS,
                   knownHosts, aliasesForHost, knownIPs, ipsForHost, serverInfos,
                   queryErrors, pendingHosts, distances, ownerPc, ownerMsg,
                   callerPc, callerMsg, dnsWorkers, hostWorkers, countryWorkers,
                   adds, waits, terminates, dnsSpawned, hostSpawned>>

spiderMainLoop ==
    \/ OwnerAddHost
    \/ OwnerDnsResult
    \/ OwnerHostResult
    \/ OwnerCountryResult
    \/ \E c \in Callers : Terminate(c)

\* ------------------------------------------------------------------------
\* The valid-IP selector: apiIpValidPage (http_ip_valid.go)
\* ------------------------------------------------------------------------

\* configuration set outside http_ip_valid.go, at the scale of the model's
\* key counts
kBUCKET_SIZE == 10

flKeysSanityMin == 10

flKeysDailyJitter == 1

\* Server header tokens of a keyserver answering directly, not via a proxy
serverHeadersNative == {"sks_www", "gnuks"}

\* the key counts a server of the model may report: one the eligibility
\* pass drops, one below the sanity minimum, two of one bucket far enough
\* apart for the 5-sigma bounds to reach down to 1, and one far away
KeyCounts == {1, 5, 10, 19, 500}

\* strconv.Atoi: [ok, value] of an optionally signed decimal string
RECURSIVE atoiFrom(_, _, _)
atoiFrom(s, i, n) ==
    IF i > Len(s) THEN [ok |-> TRUE, value |-> n]
    ELSE IF ~IsDigit(Char(s, i)) THEN [ok |-> FALSE, value |-> 0]
    ELSE atoiFrom(s, i + 1, n * 10 + DigitVal(Char(s, i)))

Atoi(s) ==
    LET signed == Len(s) > 0 /\ Char(s, 1) \in {"+", "-"}
        body == IF signed THEN SubSeq(s, 2, Len(s)) ELSE s
        r == atoiFrom(body, 1, 0)
    IN  IF body = "" THEN [ok |-> FALSE, value |-> 0]
        ELSE IF signed /\ Char(s, 1) = "-" THEN [r EXCEPT !.value = 0 - r.value]
        ELSE r

\* the fields of s between separators sep (strings.Split)
RECURSIVE splitFrom(_, _, _, _)
splitFrom(s, sep, i, start) ==
    IF i > Len(s) THEN <<SubSeq(s, start, Len(s))>>
    ELSE IF Char(s, i) = sep
         THEN <<SubSeq(s, start, i - 1)>> \o splitFrom(s, sep, i + 1, i + 1)
         ELSE splitFrom(s, sep, i + 1, start)

Split(s, sep) == splitFrom(s, sep, 1, 1)

Uppers == <<"A", "B", "C", "D", "E", "F", "G", "H", "I", "J", "K", "L", "M",
            "N", "O", "P", "Q", "R", "S", "T", "U", "V", "W", "X", "Y", "Z">>

Lowers == <<"a", "b", "c", "d", "e", "f", "g", "h", "i", "j", "k", "l", "m",
            "n", "o", "p", "q", "r", "s", "t", "u", "v", "w", "x", "y", "z">>

RECURSIVE ToLower(_)
ToLower(s) ==
    IF s = "" THEN ""
    ELSE LET c == Char(s, 1)
             lc == IF \E i \in 1..26 : Uppers[i] = c
                   THEN Lowers[CHOOSE i \in 1..26 : Uppers[i] = c]
                   ELSE c
         IN  lc \o ToLower(SubSeq(s, 2, Len(s)))

\* NewSksVersion: the dotted triple of a version string, <<>> (nil) when it
\* is not one
NewSksVersion(s) ==
    LET parts == Split(s, ".")
        nums == [i \in 1..Len(parts) |-> Atoi(parts[i])]
    IN  IF Len(parts) = 3 /\ \A i \in 1..3 : nums[i].ok /\ nums[i].value >= 0
        THEN <<nums[1].value, nums[2].value, nums[3].value>>
        ELSE <<>>

\* SksVersion.IsAtLeast: the order of version triples
IsAtLeast(v, min) ==
    \/ v[1] > min[1]
    \/ v[1] = min[1] /\ v[2] > min[2]
    \/ v[1] = min[1] /\ v[2] = min[2] /\ v[3] >= min[3]

\* NewCountrySet and CountrySet.HasCountry: the codes of a comma-separated list
NewCountrySet(s) == Range(Split(s, ","))

HasCountry(set, geo) == geo \in set

\* req.Form.Get
FormGet(form, key) == GetOr(form, key, "")

\* the strings the snapshots and forms of the model carry, and the parsers
\* above tabulated once over them
VersionStrings == {"1.1.4", "1.0.10", "1.1.0"}

ServerHeaders == {"nginx/1.2", "SKS_www/1.1.4"}

CountryLists == {"US"}

ThresholdStrings == {"1", "60"}

sksVersionOf == [s \in VersionStrings |-> NewSksVersion(s)]

serverTokenOf == [h \in ServerHeaders |-> ToLower(Split(h, "/")[1])]

countrySetOf == [s \in CountryLists |-> NewCountrySet(s)]

atoiOf == [s \in ThresholdStrings |-> Atoi(s)]

\* an eligibility pass that enters every IP of a server in the statistics
eligibilityOf_everyIpCounted(acc, node, ipCountryMap, form) ==
    LET minimumVersion == IF FormGet(form, "minimum_version") # ""
                          THEN sksVersionOf[FormGet(form, "minimum_version")]
                          ELSE <<>>
        thisVersion == sksVersionOf[node.Version]
        skip_this_1010 == node.Version = "1.0.10"
        skip_this_age ==
            /\ minimumVersion # <<>>
            /\ (thisVersion = <<>> \/ ~IsAtLeast(thisVersion, minimumVersion))
        skip_this_nonproxy ==
            /\ Has(form, "proxies")
            /\ node.ViaHeader = ""
            /\ serverTokenOf[node.ServerHeader] \in serverHeadersNative
        skip_this_country ==
            /\ Has(form, "countries")
            /\ ~\E i \in 1..Len(node.IpList) :
                    /\ Has(ipCountryMap, node.IpList[i])
                    /\ HasCountry(countrySetOf[FormGet(form, "countries")],
                                  ipCountryMap[node.IpList[i]])
        ips == Range(node.IpList)
    IN  IF node.Keycount <= 1 \/ Len(node.IpList) = 0 THEN acc
        ELSE [one |-> PutAll(acc.one, node.IpList, node.Keycount),
              all |-> PutAll(acc.all, node.IpList, node.Keycount),
              skip_1010 |-> IF skip_this_1010 THEN acc.skip_1010 \cup ips
                            ELSE acc.skip_1010,
              too_old |-> IF skip_this_age THEN acc.too_old \cup ips ELSE acc.too_old,
              unwanted_server |-> IF skip_this_nonproxy
                                  THEN acc.unwanted_server \cup ips
                                  ELSE acc.unwanted_server,
              wrong_country |-> IF skip_this_country THEN acc.wrong_country \cup ips
                                ELSE acc.wrong_country]

\* an eligibility pass that drops a server only below one key
eligibilityOf_oneKeyCounted(acc, node, ipCountryMap, form) ==
    LET minimumVersion == IF FormGet(form, "minimum_version") # ""
                          THEN sksVersionOf[FormGet(form, "minimum_version")]
                          ELSE <<>>
        thisVersion == sksVersionOf[node.Version]
        skip_this_1010 == node.Version = "1.0.10"
        skip_this_age ==
            /\ minimumVersion # <<>>
            /\ (thisVersion = <<>> \/ ~IsAtLeast(thisVersion, minimumVersion))
        skip_this_nonproxy ==
            /\ Has(form, "proxies")
            /\ node.ViaHeader = ""
            /\ serverTokenOf[node.ServerHeader] \in serverHeadersNative
        skip_this_country ==
            /\ Has(form, "countries")
            /\ ~\E i \in 1..Len(node.IpList) :
                    /\ Has(ipCountryMap, node.IpList[i])
                    /\ HasCountry(countrySetOf[FormGet(form, "countries")],
                                  ipCountryMap[node.IpList[i]])
        ips == Range(node.IpList)
    IN  IF node.Keycount < 1 \/ Len(node.IpList) = 0 THEN acc
        ELSE [one |-> Put(acc.one, node.IpList[1], node.Keycount),
              all |-> PutAll(acc.all, node.IpList, node.Keycount),
              skip_1010 |-> IF skip_this_1010 THEN acc.skip_1010 \cup ips
                            ELSE acc.skip_1010,
              too_old |-> IF skip_this_age THEN acc.too_old \cup ips ELSE acc.too_old,
              unwanted_server |-> IF skip_this_nonproxy
                                  THEN acc.unwanted_server \cup ips
                                  ELSE acc.unwanted_server,
              wrong_country |-> IF skip_this_country THEN acc.wrong_country \cup ips
                                ELSE acc.wrong_country]

\* the eligibility pass over one server (http_ip_valid.go:140-205):
\* acc = [one, all, skip_1010, too_old, unwanted_server, wrong_country]
eligibilityOf(acc, node, ipCountryMap, form) ==
    LET minimumVersion == IF FormGet(form, "minimum_version") # ""
                          THEN sksVersionOf[FormGet(form, "minimum_version")]
                          ELSE <<>>
        thisVersion == sksVersionOf[node.Version]
        skip_this_1010 == node.Version = "1.0.10"
        skip_this_age ==
            /\ minimumVersion # <<>>
            /\ (thisVersion = <<>> \/ ~IsAtLeast(thisVersion, minimumVersion))
        skip_this_nonproxy ==
            /\ Has(form, "proxies")
            /\ node.ViaHeader = ""
            /\ serverTokenOf[node.ServerHeader] \in serverHeadersNative
        skip_this_country ==
            /\ Has(form, "countries")
            /\ ~\E i \in 1..Len(node.IpList) :
                    /\ Has(ipCountryMap, node.IpList[i])
                    /\ HasCountry(countrySetOf[FormGet(form, "countries")],
                                  ipCountryMap[node.IpList[i]])
        ips == Range(node.IpList)
    IN  IF node.Keycount <= 1 \/ Len(node.IpList) = 0 THEN acc
        ELSE [one |-> Put(acc.one, node.IpList[1], node.Keycount),
              all |-> PutAll(acc.all, node.IpList, node.Keycount),
              skip_1010 |-> IF skip_this_1010 THEN acc.skip_1010 \cup ips
                            ELSE acc.skip_1010,
              too_old |-> IF skip_this_age THEN acc.too_old \cup ips ELSE acc.too_old,
              unwanted_server |-> IF skip_this_nonproxy
                                  THEN acc.unwanted_server \cup ips
                                  ELSE acc.unwanted_server,
              wrong_country |-> IF skip_this_country THEN acc.wrong_country \cup ips
                                ELSE acc.wrong_country]

\* the loop over persisted.Sorted (http_ip_valid.go:139-207)
RECURSIVE eligibilityPass(_, _, _, _)
eligibilityPass(acc, names, persisted, form) ==
    IF names = <<>> THEN acc
    ELSE eligibilityPass(
            eligibilityOf(acc, persisted.HostMap[Head(names)],
                          persisted.IPCountryMap, form),
            Tail(names), persisted, form)

\* the values of map m at the keys ks, in some order, as a sequence
RECURSIVE valuesAt(_, _)
valuesAt(m, ks) ==
    IF ks = {} THEN <<>>
    ELSE LET k == CHOOSE x \in ks : TRUE
         IN  <<m[k]>> \o valuesAt(m, ks \ {k})

RECURSIVE sumOf(_)
sumOf(vs) == IF vs = <<>> THEN 0 ELSE Head(vs) + sumOf(Tail(vs))

sumSqOf(vs) == sumOf([i \in 1..Len(vs) |-> vs[i] * vs[i]])

\* sort.Ints
RECURSIVE sortInts(_)
sortInts(vs) ==
    IF vs = <<>> THEN <<>>
    ELSE LET i == CHOOSE j \in 1..Len(vs) : \A k \in 1..Len(vs) : vs[j] <= vs[k]
         IN  <<vs[i]>> \o sortInts(SubSeq(vs, 1, i - 1) \o SubSeq(vs, i + 1, Len(vs)))

\* the integer part of math.Sqrt(n)
RECURSIVE isqrtIn(_, _, _)
isqrtIn(n, lo, hi) ==
    IF lo = hi THEN lo
    ELSE LET mid == (lo + hi + 1) \div 2
         IN  IF mid * mid <= n THEN isqrtIn(n, mid, hi) ELSE isqrtIn(n, lo, mid - 1)

isqrt(n) == isqrtIn(n, 0, 46340)

\* Mean and standard deviation of the values vs are sum/n and sqrt(x)/n with
\* x = n * sumsq - sum * sum; the float64 results of the code are held here
\* as these exact integers, and int() truncates towards zero.
spread(vs) == Len(vs) * sumSqOf(vs) - sumOf(vs) * sumOf(vs)

\* int(mean - 5*sd)  (http_ip_valid.go:255)
boundsMin(vs) ==
    LET n == Len(vs)
        sum == sumOf(vs)
        r == isqrt(25 * spread(vs))
        up == IF r * r = 25 * spread(vs) THEN r ELSE r + 1
    IN  IF sum >= up THEN (sum - up) \div n ELSE 0 - ((r - sum) \div n)

\* int(mean + 5*sd)  (http_ip_valid.go:256)
boundsMax(vs) == (sumOf(vs) + isqrt(25 * spread(vs))) \div Len(vs)

\* int(second_sd)  (http_ip_valid.go:285, 319)
intSd(vs) == isqrt(spread(vs)) \div Len(vs)

\* a threshold that takes off the deviation but not the daily jitter
computedThreshold_withoutJitter(second) ==
    LET threshold_candidates == sortInts(second)
        threshold_base_index == IF Len(second) - 2 < 0 THEN 0 ELSE Len(second) - 2
    IN  threshold_candidates[threshold_base_index + 1] - intSd(second)

\* http_ip_valid.go:310-319: the second largest count in bounds, less the
\* daily jitter and the deviation
computedThreshold(second) ==
    LET threshold_candidates == sortInts(second)
        threshold_base_index == IF Len(second) - 2 < 0 THEN 0 ELSE Len(second) - 2
    IN  threshold_candidates[threshold_base_index + 1]
            - (flKeysDailyJitter + intSd(second))

\* buckets (http_ip_valid.go:222-229): bucket number -> the first IPs of
\* the servers counted in it
bucketsOf(one) ==
    [b \in {one[ip] \div kBUCKET_SIZE : ip \in DOMAIN one} |->
        {ip \in DOMAIN one : one[ip] \div kBUCKET_SIZE = b}]

\* The loop of http_ip_valid.go:237-242 keeps the first bucket it meets
\* that is longer than every bucket met before; Go ranges over a map in an
\* unspecified order, so it may end on any bucket of the largest size.
largestBuckets(buckets) ==
    {b \in DOMAIN buckets :
        \A c \in DOMAIN buckets : Cardinality(buckets[c]) <= Cardinality(buckets[b])}

Abort(reason) ==
    [status |-> "INVALID", reason |-> reason, minimum |-> 0, ips |-> {},
     tags |-> <<>>]

\* a filterOut that hands its candidates back unfiltered
filterOut_keepsAll(eliminate, candidates) == candidates

\* filterOut (http_ip_valid.go:346-363)
filterOut(eliminate, candidates) == {ip \in candidates : ip \notin eliminate}

\* exclusion filters whose emptiness tests run from the last filter back
applyFilters_lastFilterFirst(e, form, threshold, ips) ==
    LET minimumVersion == IF FormGet(form, "minimum_version") # ""
                          THEN sksVersionOf[FormGet(form, "minimum_version")]
                          ELSE <<>>
        ips1 == filterOut(e.skip_1010, ips)
        ips2 == IF minimumVersion # <<>> THEN filterOut(e.too_old, ips1) ELSE ips1
        ips3 == IF Has(form, "countries") THEN filterOut(e.wrong_country, ips2)
                ELSE ips2
        ips4 == IF Has(form, "proxies") THEN filterOut(e.unwanted_server, ips3)
                ELSE ips3
    IN  IF ips4 # {}
        THEN [status |-> "COMPLETE", reason |-> "", minimum |-> threshold,
              ips |-> ips4, tags |-> <<"skip_1010", "alg_5">>]
        ELSE IF Has(form, "proxies") THEN Abort("No_servers_left_after_proxies_filter")
        ELSE IF Has(form, "countries")
        THEN Abort("No_servers_left_after_country_filter_["
                    \o FormGet(form, "countries") \o "]")
        ELSE IF minimumVersion # <<>>
        THEN Abort("No_servers_left_after_minimum_version_filter_(v"
                    \o FormGet(form, "minimum_version") \o ")")
        ELSE Abort("No_servers_left_after_v1.0.10_filter")

\* http_ip_valid.go:365-393, 407-420: the exclusion filters in turn, then
\* the COMPLETE status
applyFilters(e, form, threshold, ips) ==
    LET minimumVersion == IF FormGet(form, "minimum_version") # ""
                          THEN sksVersionOf[FormGet(form, "minimum_version")]
                          ELSE <<>>
        ips1 == filterOut(e.skip_1010, ips)
        ips2 == IF minimumVersion # <<>> THEN filterOut(e.too_old, ips1) ELSE ips1
        ips3 == IF Has(form, "countries") THEN filterOut(e.wrong_country, ips2)
                ELSE ips2
        ips4 == IF Has(form, "proxies") THEN filterOut(e.unwanted_server, ips3)
                ELSE ips3
    IN  IF ips1 = {} THEN Abort("No_servers_left_after_v1.0.10_filter")
        ELSE IF ips2 = {}
        THEN Abort("No_servers_left_after_minimum_version_filter_(v"
                    \o FormGet(form, "minimum_version") \o ")")
        ELSE IF ips3 = {}
        THEN Abort("No_servers_left_after_country_filter_["
                    \o FormGet(form, "countries") \o "]")
        ELSE IF ips4 = {} THEN Abort("No_servers_left_after_proxies_filter")
        ELSE [status |-> "COMPLETE", reason |-> "", minimum |-> threshold,
              ips |-> ips4, tags |-> <<"skip_1010", "alg_5">>]

\* http_ip_valid.go:243-344 for the chosen largest bucket: the two passes of
\* statistics, the threshold and the candidate IPs
selectFrom(e, form, largest_bucket) ==
    LET buckets == bucketsOf(e.one)
        first == valuesAt(e.one, buckets[largest_bucket])
        first_bounds_min == boundsMin(first)
        first_bounds_max == boundsMax(first)
        inBounds(ip) == first_bounds_min <= e.all[ip] /\ e.all[ip] <= first_bounds_max
        first_ips == {ip \in DOMAIN e.one : inBounds(ip)}
        first_ips_all == {ip \in DOMAIN e.all : inBounds(ip)}
        second == valuesAt(e.all, first_ips)
        computed == computedThreshold(second)
        nt == IF Has(form, "threshold") THEN atoiOf[form["threshold"]]
              ELSE [ok |-> FALSE, value |-> 0]
        threshold == IF nt.ok /\ nt.value > 0 THEN nt.value ELSE computed
        ips == {ip \in first_ips_all : e.all[ip] >= threshold}
    IN  IF first_ips = {}
        THEN \* 0/0 is NaN, which passes the sanity test; indexing the empty
             \* threshold_candidates then panics
             [status |-> "PANIC", reason |-> "index out of range", minimum |-> 0,
              ips |-> {}, tags |-> <<>>]
        ELSE IF sumOf(second) < flKeysSanityMin * Len(second)
        THEN Abort("broken_data")
        ELSE IF ips = {} THEN Abort("threshold_too_high")
        ELSE applyFilters(e, form, threshold, ips)

NoEligible ==
    [one |-> EmptyMap, all |-> EmptyMap, skip_1010 |-> {}, too_old |-> {},
     unwanted_server |-> {}, wrong_country |-> {}]

\* the selector's outcome for a snapshot (persisted.nil: none published
\* yet), a request form and the bucket the range loop ends on
Selector(persisted, form, largest_bucket) ==
    IF persisted.nil THEN Abort("first_scan")
    ELSE LET e == eligibilityPass(NoEligible, persisted.Sorted, persisted, form)
         IN  IF DOMAIN bucketsOf(e.one) = {} THEN Abort("broken_no_buckets")
             ELSE selectFrom(e, form, largest_bucket)

\* the buckets the range loop may end on; 0, the zero value of
\* largest_bucket, when there is none
bucketChoices(persisted, form) ==
    IF persisted.nil THEN {0}
    ELSE LET e == eligibilityPass(NoEligible, persisted.Sorted, persisted, form)
             l == largestBuckets(bucketsOf(e.one))
         IN  IF l = {} THEN {0} ELSE l

\* ------------------------------------------------------------------------
\* The selector's inputs: published snapshots and request forms
\* ------------------------------------------------------------------------

\* calls of apiIpValidPage on one snapshot and form
MaxEvals == 2

VARIABLES
    persisted,        \* GetCurrentPersisted(): Sorted, HostMap, IPCountryMap
    form,             \* req.Form
    responses         \* what apiIpValidPage answered, call by call

selVars == <<persisted, form, responses>>

NilSnapshot ==
    [nil |-> TRUE, Sorted |-> <<>>, HostMap |-> EmptyMap, IPCountryMap |-> EmptyMap]

EmptySnapshot == [NilSnapshot EXCEPT !.nil = FALSE]

Node(keycount, version, via, server, ipList) ==
    [Keycount |-> keycount, Version |-> version, ViaHeader |-> via,
     ServerHeader |-> server, IpList |-> ipList]

\* s1: one address; a current version or 1.0.10
S1Nodes ==
    {Node(k, v, "1.1 proxy", "nginx/1.2", <<"198.51.100.1">>) :
        k \in KeyCounts, v \in {"1.1.4", "1.0.10"}}

\* s2: dual-stack; current behind a proxy, old behind a proxy, or current
\* and answering natively
S2Nodes ==
    {Node(k, p[1], p[2], p[3], <<"198.51.100.2", "2001:db8::2">>) :
        k \in KeyCounts,
        p \in {<<"1.1.4", "1.1 proxy", "nginx/1.2">>,
               <<"1.1.0", "1.1 proxy", "nginx/1.2">>,
               <<"1.1.4", "", "SKS_www/1.1.4">>}}

\* s3: one address of its own, in one of two countries, or s2's first
\* address, or s1's address, or no address
S3Nodes ==
    {Node(k, "1.1.4", "1.1 proxy", "nginx/1.2", l) :
        k \in KeyCounts,
        l \in {<<"198.51.100.3">>, <<"198.51.100.2">>, <<"198.51.100.1">>, <<>>}}

S3Choices ==
    {<<n3, "US">> : n3 \in S3Nodes}
        \cup {<<n3, "DE">> : n3 \in {n \in S3Nodes : n.IpList = <<"198.51.100.3">>}}

Snapshots ==
    {NilSnapshot, EmptySnapshot}
        \cup {[nil |-> FALSE,
               Sorted |-> <<"s1", "s2", "s3">>,
               HostMap |-> [n \in {"s1", "s2", "s3"} |->
                                IF n = "s1" THEN n1 ELSE IF n = "s2" THEN n2 ELSE n3c[1]],
               IPCountryMap |->
                    [ip \in {"198.51.100.1", "198.51.100.2", "2001:db8::2",
                             "198.51.100.3"} |->
                        IF ip = "2001:db8::2" THEN "DE"
                        ELSE IF ip = "198.51.100.3" THEN n3c[2] ELSE "US"]] :
              n1 \in S1Nodes, n2 \in S2Nodes,
              n3c \in S3Choices}

\* a request form: only the parameters given are keys
FormOf(mv, px, co, th) ==
    [k \in (IF mv # "" THEN {"minimum_version"} ELSE {})
            \cup (IF px THEN {"proxies"} ELSE {})
            \cup (IF co # "" THEN {"countries"} ELSE {})
            \cup (IF th # "" THEN {"threshold"} ELSE {}) |->
        IF k = "minimum_version" THEN mv
        ELSE IF k = "proxies" THEN "1"
        ELSE IF k = "countries" THEN co
        ELSE th]

Forms ==
    {FormOf(mv, px, co, th) :
        mv \in {"", "1.1.4"}, px \in BOOLEAN, co \in {"", "US"},
        th \in {"", "1", "60"}}

SelectorIdle ==
    /\ persisted = NilSnapshot
    /\ form = EmptyMap
    /\ responses = <<>>

\* one request served by apiIpValidPage, its range loop ending on bucket b
apiIpValidPage(b) ==
    /\ Len(responses) < MaxEvals
    /\ b \in bucketChoices(persisted, form)
    /\ responses' = Append(responses, Selector(persisted, form, b))
    /\ UNCHANGED <<persisted, form, spiderVars>>

Buckets == {k \div kBUCKET_SIZE : k \in KeyCounts}

vars == <<spiderVars, selVars>>

Init == SpiderInit /\ SelectorIdle

Next ==
    \/ \E c \in Callers, h \in SeedNames, d \in SeedDistances :
            AddHostCall(c, h, d) /\ UNCHANGED selVars
    \/ \E c \in Callers : AddHostSend(c) /\ UNCHANGED selVars
    \/ \E c \in Callers : Wait(c) /\ UNCHANGED selVars
    \/ \E c \in Callers : Terminate(c) /\ UNCHANGED selVars
    \/ OwnerAddHost /\ UNCHANGED selVars
    \/ OwnerDnsResult /\ UNCHANGED selVars
    \/ OwnerHostResult /\ UNCHANGED selVars
    \/ OwnerCountryResult /\ UNCHANGED selVars
    \/ \E h \in DOMAIN dnsWorkers : \E reply \in DnsReplies(h) :
            DnsWorker(h, reply) /\ UNCHANGED selVars
    \/ \E h \in DOMAIN hostWorkers : \E sent \in QueryHostResults(h) :
            QueryHost(h, sent) /\ UNCHANGED selVars
    \/ \E ip \in DOMAIN countryWorkers, reply \in CountryReplies :
            QueryCountryForIP(ip, reply) /\ UNCHANGED selVars

Spec == Init /\ [][Next]_vars

\* the selector on every snapshot and form of the model
SelInit ==
    /\ SpiderInit
    /\ persisted \in Snapshots
    /\ form \in Forms
    /\ responses = <<>>

SelNext == \E b \in Buckets : apiIpValidPage(b)

SelSpec == SelInit /\ [][SelNext]_vars

\* ------------------------------------------------------------------------
\* Properties of the Spider
\* ------------------------------------------------------------------------

\* the owner has read every message sent and no goroutine is left to send one
Drained ==
    /\ batchAddHost = <<>>
    /\ dnsResult = <<>>
    /\ hostResult = <<>>
    /\ countryResult = <<>>
    /\ \A c \in Callers : callerPc[c] = "idle"
    /\ ownerPc = "select"
    /\ \A h \in DOMAIN dnsWorkers : dnsWorkers[h] = 0
    /\ \A h \in DOMAIN hostWorkers : hostWorkers[h] = 0
    /\ \A ip \in DOMAIN countryWorkers : countryWorkers[ip] = 0
    /\ pending = 0

\* C1: whenever Wait returns, after at least one AddHost, every message sent
\* on the four channels has been processed, no worker is in flight and the
\* pending counter is zero.
C1_WaitReturnsDrained == [][waits' = waits + 1 => Drained']_vars

\* C2: canonical fixpoint: for every key h of knownHosts,
\* knownHosts[knownHosts[h]] is defined and equals knownHosts[h].
C2_CanonicalFixpoint ==
    \A h \in DOMAIN knownHosts :
        /\ Has(knownHosts, knownHosts[h])
        /\ knownHosts[knownHosts[h]] = knownHosts[h]

\* C3: a DNS worker is spawned at most once per hostname, however often the
\* name is passed to AddHost, gossiped, or repeated inside one batch.
C3_OneDnsWorkerPerHostname ==
    \A h \in DOMAIN dnsSpawned : dnsSpawned[h] <= 1

\* a probe's gossip list naming b.x twice has been stored, the owner has
\* worked through every batch, and b.x has had its one lookup
C3_Witness ==
    /\ ownerPc = "select"
    /\ batchAddHost = <<>>
    /\ \E s \in DOMAIN serverInfos :
            /\ ~serverInfos[s].nil
            /\ \E i, j \in 1..Len(serverInfos[s].GossipPeerList) :
                    /\ i # j
                    /\ serverInfos[s].GossipPeerList[i] = "b.x"
                    /\ serverInfos[s].GossipPeerList[j] = "b.x"
    /\ GetOr(dnsSpawned, "b.x", 0) = 1
    /\ GetOr(dnsSpawned, "a.x", 0) = 1

\* C4: considering and badDNS are disjoint in every reachable state.
C4_ConsideringBadDnsDisjoint == considering \cap badDNS = {}

\* the owner takes a message off one of its four channels
OwnerReceives ==
    \/ Len(batchAddHost') < Len(batchAddHost)
    \/ Len(dnsResult') < Len(dnsResult)
    \/ Len(hostResult') < Len(hostResult)
    \/ Len(countryResult') < Len(countryResult)

\* C5: once the terminate signal has been received, the event loop processes
\* no further addHost, dnsResult, hostResult or countryResult message.
C5_TerminateStopsLoop == [][terminates > 0 => ~OwnerReceives]_vars

\* C6: a hostname that is blacklisted, an IP literal, without a dot, with
\* "pool." in it, ending in ".local" or on the do-not-query list never gets a
\* DNS worker or a probe and never enters considering.
C6_RejectedNeverConsidered ==
    \A h \in RejectedHosts :
        /\ h \notin considering
        /\ GetOr(dnsSpawned, h, 0) = 0
        /\ GetOr(hostSpawned, h, 0) = 0
        /\ GetOr(dnsWorkers, h, 0) = 0
        /\ GetOr(hostWorkers, h, 0) = 0

\* every rejected name has arrived by gossip and x.local also as a seed, and
\* the owner has worked through every batch
C6_Witness ==
    /\ ownerPc = "select"
    /\ batchAddHost = <<>>
    /\ \A c \in Callers : callerPc[c] = "idle"
    /\ Has(pendingHosts, "x.local")
    /\ adds = MaxAdds
    /\ \E s \in DOMAIN serverInfos :
            /\ ~serverInfos[s].nil
            /\ RejectedHosts \subseteq Range(serverInfos[s].GossipPeerList)

\* C7: alias membership: for every key h of knownHosts with c = knownHosts[h],
\* h is an element of aliasesForHost[c].
C7_AliasMembership ==
    \A h \in DOMAIN knownHosts :
        /\ Has(aliasesForHost, knownHosts[h])
        /\ h \in Range(aliasesForHost[knownHosts[h]])

\* the owner's next message is a successful probe of a hostname whose node
\* reports another name as its own
RenamingResultAtHead ==
    /\ ownerPc = "select"
    /\ hostResult # <<>>
    /\ Head(hostResult).err = ""
    /\ Has(Head(hostResult).node.Settings, "Hostname")
    /\ Head(hostResult).node.Settings["Hostname"] # Head(hostResult).hostname

\* C8: when a successful probe of h reports a selfHostname s other than h,
\* then once the result is processed serverInfos holds the node under s and
\* nothing under h, knownHosts[h] = s, and h is in aliasesForHost[s].
C8_RenameKeyedBySelfHostname ==
    [][(RenamingResultAtHead /\ hostResult' = Tail(hostResult))
        => LET h == Head(hostResult).hostname
               node == Head(hostResult).node
               s == node.Settings["Hostname"]
           IN  /\ Has(serverInfos', s)
               /\ serverInfos'[s] = node
               /\ ~Has(serverInfos', h)
               /\ Has(knownHosts', h)
               /\ knownHosts'[h] = s
               /\ Has(aliasesForHost', s)
               /\ h \in Range(aliasesForHost'[s])]_vars

\* a node is stored under the name it reported, which is not the name it
\* was queried by
C8_Witness ==
    \E s \in DOMAIN serverInfos :
        /\ ~serverInfos[s].nil
        /\ serverInfos[s].Hostname # s
        /\ Has(serverInfos[s].Settings, "Hostname")
        /\ serverInfos[s].Settings["Hostname"] = s
        /\ GetOr(knownHosts, serverInfos[s].Hostname, "") = s

\* ------------------------------------------------------------------------
\* Properties of the selector
\* ------------------------------------------------------------------------

\* C9: for a fixed snapshot and query every evaluation of the selector gives
\* the same outcome: status, reason, threshold and set of IPs, also when
\* buckets tie for the largest member count.
C9_SelectorDeterministic ==
    \A i, j \in 1..Len(responses) : responses[i] = responses[j]

\* every server of a non-empty snapshot has K keys
Uniform(K) ==
    /\ ~persisted.nil
    /\ persisted.Sorted # <<>>
    /\ \A i \in 1..Len(persisted.Sorted) :
            persisted.HostMap[persisted.Sorted[i]].Keycount = K

\* the server falls under an exclusion the query asks for, or runs 1.0.10
ServerExcluded(node) ==
    \/ node.Version = "1.0.10"
    \/ /\ FormGet(form, "minimum_version") # ""
       /\ sksVersionOf[FormGet(form, "minimum_version")] # <<>>
       /\ \/ sksVersionOf[node.Version] = <<>>
          \/ ~IsAtLeast(sksVersionOf[node.Version],
                        sksVersionOf[FormGet(form, "minimum_version")])
    \/ /\ Has(form, "proxies")
       /\ node.ViaHeader = ""
       /\ serverTokenOf[node.ServerHeader] \in serverHeadersNative
    \/ /\ Has(form, "countries")
       /\ \A ip \in Range(node.IpList) :
            \/ ~Has(persisted.IPCountryMap, ip)
            \/ ~HasCountry(countrySetOf[FormGet(form, "countries")],
                           persisted.IPCountryMap[ip])

AllIPs ==
    UNION {Range(persisted.HostMap[n].IpList) : n \in Range(persisted.Sorted)}

\* the IPs that no excluded server has
NonExcludedIPs ==
    AllIPs \ UNION {Range(persisted.HostMap[n].IpList) :
                        n \in {m \in Range(persisted.Sorted) :
                                    ServerExcluded(persisted.HostMap[m])}}

\* C10: uniform cluster: when every server has the same keycount
\* K >= flKeysSanityMin and the query gives no threshold, the threshold is
\* K - flKeysDailyJitter and the valid answer holds exactly the IPs of the
\* servers in no applicable exclusion set, that is the IPs no excluded
\* server has (and is given whenever there is such an IP).
C10_UniformCluster ==
    \A K \in KeyCounts :
        (K >= flKeysSanityMin /\ Uniform(K) /\ ~Has(form, "threshold"))
            => \A i \in 1..Len(responses) :
                    /\ responses[i].status = "COMPLETE"
                        => /\ responses[i].minimum = K - flKeysDailyJitter
                           /\ responses[i].ips = NonExcludedIPs
                    /\ NonExcludedIPs # {} => responses[i].status = "COMPLETE"

\* a uniform snapshot, a query that excludes some server but not all, and a
\* valid answer
C10_Witness ==
    /\ \E K \in KeyCounts : K >= flKeysSanityMin /\ Uniform(K)
    /\ ~Has(form, "threshold")
    /\ NonExcludedIPs # AllIPs
    /\ Len(responses) > 0
    /\ responses[1].status = "COMPLETE"

\* the servers of the snapshot, and those the statistics count: more than
\* one key and at least one address
Servers == Range(persisted.Sorted)

CountedServers ==
    {n \in Servers : persisted.HostMap[n].Keycount > 1
                        /\ persisted.HostMap[n].IpList # <<>>}

\* no address is listed by two servers
DisjointIPs ==
    \A m, n \in Servers :
        m # n => Range(persisted.HostMap[m].IpList)
                    \cap Range(persisted.HostMap[n].IpList) = {}

KeycountOf == [n \in Servers |-> persisted.HostMap[n].Keycount]

ServersInBucket(b) == {n \in CountedServers : KeycountOf[n] \div kBUCKET_SIZE = b}

\* the buckets holding the most servers
ModeBuckets ==
    {b \in {KeycountOf[n] \div kBUCKET_SIZE : n \in CountedServers} :
        \A n \in CountedServers :
            Cardinality(ServersInBucket(KeycountOf[n] \div kBUCKET_SIZE))
                <= Cardinality(ServersInBucket(b))}

\* the key count k lies within the first-pass bounds of bucket b
WithinFirstBounds(k, b) ==
    LET vs == valuesAt(KeycountOf, ServersInBucket(b))
    IN  boundsMin(vs) <= k /\ k <= boundsMax(vs)

IPsOf(servers) == UNION {Range(persisted.HostMap[n].IpList) : n \in servers}

\* the query gives threshold=1 and nothing else
OverrideOneOnly == DOMAIN form = {"threshold"} /\ form["threshold"] = "1"

\* C11: with a threshold override of 1 and no version, country or proxy
\* filter, the selector returns every IP whose server has keycount >= 1 and
\* lies within the first-pass 5-sigma bounds (of a bucket the choice of the
\* largest may fall on), whenever its answer is valid.
C11_OverrideOneReturnsInBounds ==
    (OverrideOneOnly /\ ~persisted.nil /\ DisjointIPs /\ ModeBuckets # {})
        => \A i \in 1..Len(responses) :
                responses[i].status = "COMPLETE"
                    => \E b \in ModeBuckets :
                        IPsOf({n \in Servers :
                                KeycountOf[n] >= 1
                                    /\ WithinFirstBounds(KeycountOf[n], b)})
                            \subseteq responses[i].ips

\* C11, amended: with a threshold override of 1, no other filter and no
\* address shared between servers, a valid answer reports threshold 1 and
\* holds exactly the IPs of the servers with keycount > 1 and a version other
\* than 1.0.10 whose keycount lies within the first-pass bounds of the
\* largest bucket chosen.
C11_OverrideOneAmended ==
    (OverrideOneOnly /\ ~persisted.nil /\ DisjointIPs)
        => \A i \in 1..Len(responses) :
                responses[i].status = "COMPLETE"
                    => /\ responses[i].minimum = 1
                       /\ \E b \in ModeBuckets :
                            responses[i].ips =
                                IPsOf({n \in Servers :
                                        /\ KeycountOf[n] > 1
                                        /\ persisted.HostMap[n].Version # "1.0.10"
                                        /\ WithinFirstBounds(KeycountOf[n], b)})

\* a valid answer to threshold=1 on a snapshot where a server with one key
\* and a server running 1.0.10 both lie within the bounds and are left out
C11_Witness ==
    /\ OverrideOneOnly
    /\ ~persisted.nil
    /\ DisjointIPs
    /\ Len(responses) > 0
    /\ responses[1].status = "COMPLETE"
    /\ \E b \in ModeBuckets :
        \E m, n \in Servers :
            /\ KeycountOf[m] = 1
            /\ WithinFirstBounds(1, b)
            /\ persisted.HostMap[m].IpList # <<>>
            /\ Range(persisted.HostMap[m].IpList) \cap responses[1].ips = {}
            /\ persisted.HostMap[n].Version = "1.0.10"
            /\ KeycountOf[n] > 1
            /\ WithinFirstBounds(KeycountOf[n], b)
            /\ Range(persisted.HostMap[n].IpList) \cap responses[1].ips = {}

\* C12: a valid answer never holds an IP of a server that reports version
\* 1.0.10, whatever the snapshot and the query.
C12_NoIpOf1010Server ==
    ~persisted.nil
        => \A i \in 1..Len(responses) :
                responses[i].status = "COMPLETE"
                    => \A n \in Servers :
                            persisted.HostMap[n].Version = "1.0.10"
                                => Range(persisted.HostMap[n].IpList)
                                        \cap responses[i].ips = {}

\* the counted servers whose key count lies within the first-pass bounds of
\* bucket b, and the threshold computed from one value for each of them
ServersInBounds(b) ==
    {n \in CountedServers : WithinFirstBounds(KeycountOf[n], b)}

ThresholdPerServer(b) == computedThreshold(valuesAt(KeycountOf, ServersInBounds(b)))

\* the answer is the one the statistics give with one value per server,
\* taken over bucket b, and the candidates with every IP of a server
AnswerPerServer(r, b) ==
    /\ r.minimum = ThresholdPerServer(b)
    /\ r.ips = IPsOf({n \in ServersInBounds(b) :
                        /\ KeycountOf[n] >= ThresholdPerServer(b)
                        /\ ~ServerExcluded(persisted.HostMap[n])})

\* C13: dual-stack weighting: each server contributes exactly one value to
\* the buckets, mean, deviation and threshold however many IPs it has, and
\* the candidates range over all its IPs.
C13_OneValuePerServer ==
    (~persisted.nil /\ ~Has(form, "threshold"))
        => \A i \in 1..Len(responses) :
                responses[i].status = "COMPLETE"
                    => \E b \in ModeBuckets : AnswerPerServer(responses[i], b)

\* C13, amended: on a snapshot where no IP is listed by two servers, each
\* server contributes exactly one value to the statistics however many IPs
\* it has, and the candidates range over all its IPs.
C13_OneValuePerServerAmended ==
    (~persisted.nil /\ ~Has(form, "threshold") /\ DisjointIPs)
        => \A i \in 1..Len(responses) :
                responses[i].status = "COMPLETE"
                    => \E b \in ModeBuckets : AnswerPerServer(responses[i], b)

\* the dual-stack server s2 is counted beside a server with another key
\* count, and both its IPs are in the valid answer
C13_Witness ==
    /\ ~persisted.nil
    /\ ~Has(form, "threshold")
    /\ DisjointIPs
    /\ Len(responses) > 0
    /\ responses[1].status = "COMPLETE"
    /\ {"198.51.100.2", "2001:db8::2"} \subseteq responses[1].ips
    /\ \E b \in ModeBuckets :
            /\ AnswerPerServer(responses[1], b)
            /\ "s2" \in ServersInBounds(b)
            /\ \E n \in ServersInBounds(b) : KeycountOf[n] # KeycountOf["s2"]

\* C14: when the snapshot has no server with keycount > 1 and at least one
\* IP, an empty snapshot included, the selector answers
\* Invalid("broken_no_buckets") and nothing else.
C14_NoBuckets ==
    (~persisted.nil /\ CountedServers = {})
        => \A i \in 1..Len(responses) : responses[i] = Abort("broken_no_buckets")

\* a snapshot whose servers with an address have one key and whose server
\* with more keys has no address, and an answer to it
C14_Witness ==
    /\ ~persisted.nil
    /\ CountedServers = {}
    /\ \E n \in Servers : KeycountOf[n] > 1
    /\ \E n \in Servers : persisted.HostMap[n].IpList # <<>>
    /\ Len(responses) > 0

\* every map held by the Spider, the two bookkeeping maps included
SpiderMaps == <<mapVars, pendingHosts, pendingCountries>>

\* C15: only the owner event loop reads or writes a Spider map: a step that
\* changes one is a step in which the owner handles a message it received;
\* no caller of AddHost and no worker changes any.
C15_OnlyOwnerTouchesMaps == [][SpiderMaps' # SpiderMaps => OwnerReceives]_vars

\* C16: the owner event loop blocks only on channel receive: in no reachable
\* state is it blocked on a send while handling a message.
C16_OwnerNeverBlockedOnSend == ownerPc # "send"

\* the sum of the values of a map of ints
RECURSIVE SumOf(_)
SumOf(m) ==
    IF DOMAIN m = {} THEN 0
    ELSE LET k == CHOOSE x \in DOMAIN m : TRUE
         IN  m[k] + SumOf(Del(m, k))

\* the hostnames of the requests of a sequence
RECURSIVE NamesIn(_)
NamesIn(requests) ==
    IF requests = <<>> THEN 0
    ELSE Len(Head(requests).hostnames) + NamesIn(Tail(requests))

\* the work units outstanding: hostnames handed to AddHost or BatchAddHost
\* and not yet considered, and the DNS, probe and country workers whose
\* result the event loop has not finished processing
Outstanding ==
    NamesIn(batchAddHost)
    + Cardinality({c \in Callers : callerPc[c] = "send"})
    + (IF ownerPc = "send" THEN Len(ownerMsg[1].hostnames) + 1 ELSE 0)
    + SumOf(dnsWorkers) + Len(dnsResult)
    + SumOf(hostWorkers) + Len(hostResult)
    + SumOf(countryWorkers) + Len(countryResult)

\* C17: in every reachable state the pending counter equals the number of
\* outstanding work units; hence it is never negative and never zero while
\* a unit is outstanding.
C17_PendingCountsOutstanding ==
    /\ pending = Outstanding
    /\ pending >= 0

\* a crawl that rejected the gossiped name pool.x, looked up a country and
\* came back to a counter of zero
C17_Witness ==
    /\ pending = 0
    /\ Has(pendingHosts, "pool.x")
    /\ pendingHosts["pool.x"] = 0
    /\ countriesForIPs # EmptyMap
    /\ \E h \in DOMAIN hostSpawned : hostSpawned[h] > 0

\* C18: the stored distance of a hostname never rises: once distances[h] is
\* set, every later step leaves it set and no greater than it was.
C18_DistanceNonIncreasing ==
    [][\A h \in DOMAIN distances :
            /\ Has(distances', h)
            /\ distances'[h] <= distances[h]]_vars

\* the owner's next message is a DNS answer that lists a disallowed IP
DisallowedResultAtHead ==
    /\ ownerPc = "select"
    /\ dnsResult # <<>>
    /\ Head(dnsResult).err = ""
    /\ \E i \in 1..Len(Head(dnsResult).ipList) :
            IPDisallowed(Head(dnsResult).ipList[i])

\* C19: when any IP of a hostname's DNS answer is disallowed, wherever it
\* sits and whether or not another IP of the answer is known already, the
\* hostname goes to badDNS, knownHosts, knownIPs and ipsForHost stay as they
\* are, and no probe or country lookup is spawned.
C19_DisallowedOnlyBadDns ==
    [][(DisallowedResultAtHead /\ dnsResult' = Tail(dnsResult))
        => /\ Head(dnsResult).hostname \in badDNS'
           /\ knownHosts' = knownHosts
           /\ knownIPs' = knownIPs
           /\ ipsForHost' = ipsForHost
           /\ hostWorkers' = hostWorkers
           /\ countryWorkers' = countryWorkers]_vars

\* C20: for every IP in knownIPs, the value c = knownIPs[ip] is a key of
\* knownHosts with knownHosts[c] = c.
C20_KnownIPsCanonical ==
    \A ip \in DOMAIN knownIPs :
        /\ Has(knownHosts, knownIPs[ip])
        /\ knownHosts[knownIPs[ip]] = knownIPs[ip]

\* C21: badDNS and the key set of knownHosts are disjoint in every reachable
\* state: a hostname rejected for its DNS answer never becomes a knownHosts
\* key, and a knownHosts key is never added to badDNS.
C21_BadDnsKnownHostsDisjoint == badDNS \cap DOMAIN knownHosts = {}

\* a probe worker of hostname h ends in this step
ProbeEnds(h) ==
    /\ Has(hostWorkers, h)
    /\ Has(hostWorkers', h)
    /\ hostWorkers'[h] = hostWorkers[h] - 1

\* C22: every probe worker sends exactly one message on hostResult, on the
\* fetch-error, the analysis-panic and the success path alike: the step in
\* which a worker ends adds one message, for its hostname, and leaves the
\* counter to the owner; no other step adds a message to hostResult.
C22_OneResultPerProbe ==
    [][/\ \A h \in DOMAIN hostWorkers :
            ProbeEnds(h)
                => /\ Len(hostResult') = Len(hostResult) + 1
                   /\ SubSeq(hostResult', 1, Len(hostResult)) = hostResult
                   /\ hostResult'[Len(hostResult')].hostname = h
                   /\ pending' = pending
       /\ Len(hostResult') > Len(hostResult)
            => \E h \in DOMAIN hostWorkers : ProbeEnds(h)]_vars

\* an analysis panic has been handled as a probe error and a successful
\* probe's node is stored; no probe is left and the counter is back to zero
C22_Witness ==
    /\ \E h \in DOMAIN queryErrors : queryErrors[h] = AnalyzePanic
    /\ \E s \in DOMAIN serverInfos : ~serverInfos[s].nil
    /\ \A h \in DOMAIN hostWorkers : hostWorkers[h] = 0
    /\ hostResult = <<>>
    /\ pending = 0

\* C23: after a probe result renames the queried hostname h to another
\* canonical name, h is no longer a key of serverInfos, aliasesForHost or
\* ipsForHost, whether the canonical name had an IP list before or not.
C23_RenameDropsOldKeys ==
    [][(RenamingResultAtHead /\ hostResult' = Tail(hostResult))
        => LET h == Head(hostResult).hostname
           IN  /\ ~Has(serverInfos', h)
               /\ ~Has(aliasesForHost', h)
               /\ ~Has(ipsForHost', h)]_vars

\* what the eligibility loop leaves for the snapshot and form at hand
Eligible == eligibilityPass(NoEligible, persisted.Sorted, persisted, form)

\* for the eligibility sets e and bucket b: the key counts of the second
\* pass, and the IPs left after the threshold and after each filter in the
\* stated order, a filter that was not requested leaving the set as it is
Stages(e, b) ==
    LET first == valuesAt(e.one, bucketsOf(e.one)[b])
        lo == boundsMin(first)
        hi == boundsMax(first)
        inBounds == {ip \in DOMAIN e.all : lo <= e.all[ip] /\ e.all[ip] <= hi}
        second == valuesAt(e.all, inBounds \cap DOMAIN e.one)
        override == Has(form, "threshold") /\ atoiOf[form["threshold"]].ok
                        /\ atoiOf[form["threshold"]].value > 0
        threshold == IF override THEN atoiOf[form["threshold"]].value
                     ELSE computedThreshold(second)
        afterThreshold == {ip \in inBounds : e.all[ip] >= threshold}
        after1010 == afterThreshold \ e.skip_1010
        afterMinimumVersion ==
            IF FormGet(form, "minimum_version") # ""
            THEN after1010 \ e.too_old ELSE after1010
        afterCountries ==
            IF Has(form, "countries")
            THEN afterMinimumVersion \ e.wrong_country ELSE afterMinimumVersion
        afterProxies ==
            IF Has(form, "proxies")
            THEN afterCountries \ e.unwanted_server ELSE afterCountries
    IN  [second |-> second, afterThreshold |-> afterThreshold,
         after1010 |-> after1010, afterMinimumVersion |-> afterMinimumVersion,
         afterCountries |-> afterCountries, afterProxies |-> afterProxies]

\* the first check that fails, in the stated order; "" when none does
FirstFailure(st) ==
    IF sumOf(st.second) < flKeysSanityMin * Len(st.second) THEN "broken_data"
    ELSE IF st.afterThreshold = {} THEN "threshold_too_high"
    ELSE IF st.after1010 = {} THEN "No_servers_left_after_v1.0.10_filter"
    ELSE IF st.afterMinimumVersion = {}
    THEN "No_servers_left_after_minimum_version_filter_(v"
            \o FormGet(form, "minimum_version") \o ")"
    ELSE IF st.afterCountries = {}
    THEN "No_servers_left_after_country_filter_[" \o FormGet(form, "countries") \o "]"
    ELSE IF st.afterProxies = {} THEN "No_servers_left_after_proxies_filter"
    ELSE ""

\* the answer the stated order of checks gives for bucket b
InOrderAnswer(e, b) ==
    LET st == Stages(e, b)
        failure == FirstFailure(st)
    IN  IF failure # "" THEN Abort(failure)
        ELSE [status |-> "COMPLETE", ips |-> st.afterProxies]

\* C24: the abort checks run in a fixed order and the first that fails gives
\* the reason: broken_no_buckets, broken_data, threshold_too_high, the 1.0.10
\* filter, then the minimum-version, country and proxies filters when
\* requested, each on the output of the one before; a Valid result is given
\* only when the set is non-empty after every applicable filter, and is that
\* set.
C24_AbortOrder ==
    (~persisted.nil /\ responses # <<>>) =>
        LET e == Eligible
        IN  IF DOMAIN bucketsOf(e.one) = {}
            THEN \A i \in 1..Len(responses) :
                    responses[i] = Abort("broken_no_buckets")
            ELSE LET answers == {InOrderAnswer(e, b) : b \in bucketChoices(persisted, form)}
                 IN  \A i \in 1..Len(responses) :
                        \E a \in answers :
                            IF a.status = "COMPLETE"
                            THEN /\ responses[i].status = "COMPLETE"
                                 /\ responses[i].ips = a.ips
                                 /\ responses[i].ips # {}
                            ELSE responses[i] = a

\* every filter was requested, the 1.0.10 and the country filter each
\* removed an IP and left some, and the proxies filter emptied the set
C24_Witness ==
    /\ ~persisted.nil
    /\ Len(responses) > 0
    /\ responses[1] = Abort("No_servers_left_after_proxies_filter")
    /\ FormGet(form, "minimum_version") # ""
    /\ Has(form, "countries")
    /\ \E b \in bucketChoices(persisted, form) :
            LET st == Stages(Eligible, b)
            IN  /\ st.after1010 # st.afterThreshold
                /\ st.afterCountries # st.after1010
                /\ st.afterCountries # {}

\* a DNS result and a successful probe result are both waiting for the
\* owner, which has room on batchAddHost to handle the probe result
DnsAndProbePending ==
    /\ ownerPc = "select"
    /\ dnsResult # <<>>
    /\ hostResult # <<>>
    /\ Head(hostResult).err = ""
    /\ Len(batchAddHost) < QUEUE_DEPTH

\* the maps after the probe result at the head of hostResult is handled
\* first and the DNS result at the head of dnsResult second
ProbeThenDns ==
    LET r == processHostResult(Head(hostResult))
        m == [dnsMaps EXCEPT !.knownHosts = r.knownHosts,
                             !.aliasesForHost = r.aliasesForHost,
                             !.knownIPs = r.knownIPs,
                             !.ipsForHost = r.ipsForHost,
                             !.serverInfos = r.serverInfos]
    IN  [maps |-> processDnsResult(m, Head(dnsResult)).maps,
         distances |-> r.distances]

\* the maps handling the probe result at the head of hostResult gives in
\* the state as it stands
ProbeNow ==
    LET r == processHostResult(Head(hostResult))
    IN  [maps |-> [dnsMaps EXCEPT !.knownHosts = r.knownHosts,
                                  !.aliasesForHost = r.aliasesForHost,
                                  !.knownIPs = r.knownIPs,
                                  !.ipsForHost = r.ipsForHost,
                                  !.serverInfos = r.serverInfos],
         distances |-> r.distances]

\* C25: the Spider is order-independent across message kinds: when a DNS
\* result and a probe result are both pending, handling the DNS result and
\* then the probe result leaves the maps that handling the probe result and
\* then the DNS result leaves.
C25_CrossKindOrderIndependent ==
    [][(DnsAndProbePending /\ dnsResult' = Tail(dnsResult))
        => ProbeNow' = ProbeThenDns]_vars

\* a probe of hostname h is spawned in this step
ProbeSpawned(h) == GetOr(hostSpawned', h, 0) > GetOr(hostSpawned, h, 0)

\* C26: a probe is spawned for a hostname only when its DNS result succeeded
\* and none of its resolved IPs was in knownIPs, and then all of them are
\* entered; no hostname is probed twice and knownIPs never loses an IP, so
\* no IP belongs to the DNS results of two probed hostnames.
C26_ProbeOnlyNewHosts ==
    [][/\ \A h \in Hostnames :
            ProbeSpawned(h)
                => /\ dnsResult # <<>>
                   /\ Head(dnsResult).hostname = h
                   /\ Head(dnsResult).err = ""
                   /\ \A ip \in Range(Head(dnsResult).ipList) :
                        /\ ~Has(knownIPs, ip)
                        /\ Has(knownIPs', ip)
                   /\ hostSpawned'[h] = 1
       /\ DOMAIN knownIPs \subseteq DOMAIN knownIPs']_vars

\* a.x has been probed; b.x, whose DNS answer holds a.x's address, is
\* recorded as its alias and has not been probed
C26_Witness ==
    /\ GetOr(hostSpawned, "a.x", 0) = 1
    /\ GetOr(hostSpawned, "b.x", 0) = 0
    /\ Has(knownHosts, "b.x")
    /\ knownHosts["b.x"] = "a.x"
    /\ GetOr(dnsWorkers, "b.x", 1) = 0
    /\ \A i \in 1..Len(dnsResult) : dnsResult[i].hostname # "b.x"

\* the event loop has a message to receive and is free to receive it
OwnerCanStep ==
    /\ ownerPc = "select"
    /\ \/ batchAddHost # <<>>
       \/ dnsResult # <<>>
       \/ hostResult # <<>>
       \/ countryResult # <<>>

\* a worker can deliver its result, or a caller can complete its send
DeliveryCanStep ==
    \/ \E c \in Callers : callerPc[c] = "send" /\ Len(batchAddHost) < QUEUE_DEPTH
    \/ \E h \in DOMAIN dnsWorkers : dnsWorkers[h] > 0 /\ Len(dnsResult) < QUEUE_DEPTH
    \/ \E h \in DOMAIN hostWorkers : hostWorkers[h] > 0 /\ Len(hostResult) < QUEUE_DEPTH
    \/ \E ip \in DOMAIN countryWorkers :
            countryWorkers[ip] > 0 /\ Len(countryResult) < QUEUE_DEPTH

\* C27: quiescence is eventually reached; in particular no reachable state
\* is a deadlock in which the pending counter is positive while neither the
\* owner nor any worker or sender can take a step.
C27_NoDeadlockWhilePending ==
    pending > 0 => (OwnerCanStep \/ DeliveryCanStep)

====
